---- MODULE Spec2Model ----
(***************************************************************************)
(* Model of the training pipeline of AI-Competition-HuaWei:                *)
(*   - TrainVal.train / TrainVal.validation (train_classifier.py): the     *)
(*     epoch loop, best-score tracking and checkpoint writes;              *)
(*   - GetDataloader (datasets/create_dataset.py): construction, the       *)
(*     holdout split and the stratified K-fold split.                      *)
(* Spec      is the training controller, SplitSpec the data splitter.      *)
(***************************************************************************)
EXTENDS Integers, Sequences, FiniteSets, TLC

VARIABLES
    \* ---- TrainVal ----
    pc,                 \* position of the control thread inside train()
    self_epoch,         \* self.epoch, the configured number of epochs
    num_batches,        \* len(train_loader)
    epoch,              \* loop variable of train() (after "epoch += 1")
    i,                  \* batches of the current epoch already processed
    global_step,
    max_accuracy_valid,
    val_accuracy,       \* value returned by the last validation() call
    mode,               \* "train" after model.train(), "eval" after model.eval()
    model,              \* model parameters, as the number of optimizer updates
    lr_steps,           \* number of exp_lr_scheduler.step() calls
    valLog,             \* one record per validation() call
    saveLog,            \* one record per save_checkpoint() call
    ckptFile,           \* '<model_type>_fold<k>.pth', <<>> when absent
    bestFile,           \* the best-marked copy, <<>> when absent
    \* ---- GetDataloader ----
    dpc,                \* "new", "constructed", "ctor_error", "split_done", "split_error"
    folds_split,
    test_size,          \* percent, or None
    samples,
    labels,
    train_list,         \* returned train folds
    val_list,           \* returned val folds
    loaders             \* number of (train, val) DataLoader pairs built

tvars == <<pc, self_epoch, num_batches, epoch, i, global_step, max_accuracy_valid,
           val_accuracy, mode, model, lr_steps, valLog, saveLog, ckptFile, bestFile>>
dvars == <<dpc, folds_split, test_size, samples, labels, train_list, val_list, loaders>>
vars  == <<tvars, dvars>>

\* ---- bounds ----
MaxEpoch   == 3      \* largest configured epoch count explored
MaxBatches == 2      \* largest len(train_loader) explored
MaxAcc     == 3      \* validation accuracy is one of the levels 0..MaxAcc

Max2(a, b) == IF a > b THEN a ELSE b

(***************************************************************************)
(*                      TrainVal (train_classifier.py)                     *)
(***************************************************************************)

\* train_classifier.py:117-121, the comparison that sets is_best
IsBestNonStrict(acc, best) == acc >= best
IsBest(acc, best) == acc > best

\* train_classifier.py:117-121, the running maximum after the comparison
NewMaxAlways(acc, best) == acc
NewMax(acc, best) == IF IsBest(acc, best) THEN acc ELSE best

\* train_classifier.py:123-127, the checkpoint record
CheckpointStateStaleEpoch(e, params, score) ==
    [epoch |-> e - 1, state_dict |-> params, max_score |-> score]
CheckpointState(e, params, score) ==
    [epoch |-> e, state_dict |-> params, max_score |-> score]

\* train_classifier.py:140-143, save_result of validation()
SaveResultEarly(e, n) == e >= n - 1
SaveResult(e, n) == e = n

\* Solver.save_checkpoint: the per-fold file is overwritten by every call
SaveRegular(file, state) == <<state>>

\* Solver.save_checkpoint: the best copy is written only when is_best
SaveBest(file, state, best) == IF best THEN <<state>> ELSE file

TrainInit ==
    /\ pc = "loop"
    /\ self_epoch \in 0..MaxEpoch
    /\ num_batches \in 1..MaxBatches
    /\ epoch = 0
    /\ i = 0
    /\ global_step = 0
    /\ max_accuracy_valid = 0
    /\ val_accuracy = 0
    /\ mode = "train"
    /\ model = 0
    /\ lr_steps = 0
    /\ valLog = <<>>
    /\ saveLog = <<>>
    /\ ckptFile = <<>>
    /\ bestFile = <<>>

\* for epoch in range(self.epoch): self.model.train(); epoch += 1
EpochStart ==
    /\ pc = "loop"
    /\ epoch < self_epoch
    /\ epoch' = epoch + 1
    /\ i' = 0
    /\ mode' = "train"
    /\ pc' = "train"
    /\ UNCHANGED <<self_epoch, num_batches, global_step, max_accuracy_valid,
                   val_accuracy, model, lr_steps, valLog, saveLog, ckptFile, bestFile>>

\* variant: the scheduler is stepped inside the batch loop
TrainBatchSteppingScheduler ==
    /\ pc = "train"
    /\ i < num_batches
    /\ model' = model + 1
    /\ i' = i + 1
    /\ lr_steps' = lr_steps + 1
    /\ UNCHANGED <<pc, self_epoch, num_batches, epoch, global_step, max_accuracy_valid,
                   val_accuracy, mode, valLog, saveLog, ckptFile, bestFile>>

\* one iteration of the batch loop: forward, cal_loss, backword
TrainBatch ==
    /\ pc = "train"
    /\ i < num_batches
    /\ model' = model + 1
    /\ i' = i + 1
    /\ UNCHANGED <<pc, self_epoch, num_batches, epoch, global_step, max_accuracy_valid,
                   val_accuracy, mode, lr_steps, valLog, saveLog, ckptFile, bestFile>>

\* after the batch loop: exp_lr_scheduler.step(); global_step += len(train_loader)
SchedulerStep ==
    /\ pc = "train"
    /\ i = num_batches
    /\ lr_steps' = lr_steps + 1
    /\ global_step' = global_step + num_batches
    /\ pc' = "validate"
    /\ UNCHANGED <<self_epoch, num_batches, epoch, i, max_accuracy_valid,
                   val_accuracy, mode, model, valLog, saveLog, ckptFile, bestFile>>

\* val_accuracy, val_loss = self.validation(valid_loader, epoch)
Validation ==
    /\ pc = "validate"
    /\ \E oa \in 0..MaxAcc :
         /\ val_accuracy' = oa
         /\ valLog' = Append(valLog, [epoch |-> epoch,
                                      save_result |-> SaveResult(epoch, self_epoch),
                                      oa |-> oa,
                                      model |-> model,
                                      lr_steps |-> lr_steps])
    /\ mode' = "eval"
    /\ pc' = "checkpoint"
    /\ UNCHANGED <<self_epoch, num_batches, epoch, i, global_step, max_accuracy_valid,
                   model, lr_steps, saveLog, ckptFile, bestFile>>

\* variant: save_checkpoint is called only for a best epoch
CheckpointOnlyWhenBest ==
    /\ pc = "checkpoint"
    /\ LET is_best == IsBest(val_accuracy, max_accuracy_valid)
           new_max == NewMax(val_accuracy, max_accuracy_valid)
           state   == CheckpointState(epoch, model, new_max)
       IN /\ max_accuracy_valid' = new_max
          /\ ckptFile' = IF is_best THEN SaveRegular(ckptFile, state) ELSE ckptFile
          /\ bestFile' = SaveBest(bestFile, state, is_best)
          /\ saveLog' = IF is_best
                        THEN Append(saveLog, [state |-> state,
                                              is_best |-> is_best,
                                              lr_steps |-> lr_steps,
                                              validations |-> Len(valLog)])
                        ELSE saveLog
    /\ pc' = "loop"
    /\ UNCHANGED <<self_epoch, num_batches, epoch, i, global_step, val_accuracy,
                   mode, model, lr_steps, valLog>>

\* the is_best comparison, the state record and solver.save_checkpoint
Checkpoint ==
    /\ pc = "checkpoint"
    /\ LET is_best == IsBest(val_accuracy, max_accuracy_valid)
           new_max == NewMax(val_accuracy, max_accuracy_valid)
           state   == CheckpointState(epoch, model, new_max)
       IN /\ max_accuracy_valid' = new_max
          /\ ckptFile' = SaveRegular(ckptFile, state)
          /\ bestFile' = SaveBest(bestFile, state, is_best)
          /\ saveLog' = Append(saveLog, [state |-> state,
                                         is_best |-> is_best,
                                         lr_steps |-> lr_steps,
                                         validations |-> Len(valLog)])
    /\ pc' = "loop"
    /\ UNCHANGED <<self_epoch, num_batches, epoch, i, global_step, val_accuracy,
                   mode, model, lr_steps, valLog>>

\* range(self.epoch) is exhausted: train() returns
Finish ==
    /\ pc = "loop"
    /\ epoch >= self_epoch
    /\ pc' = "done"
    /\ UNCHANGED <<self_epoch, num_batches, epoch, i, global_step, max_accuracy_valid,
                   val_accuracy, mode, model, lr_steps, valLog, saveLog, ckptFile, bestFile>>

(***************************************************************************)
(*                GetDataloader (datasets/create_dataset.py)               *)
(* Lists are 1-based here; index k stands for Python's index k-1.          *)
(***************************************************************************)

\* ---- bounds ----
MaxSamples == 4      \* longest sample list explored
MaxFolds   == 3      \* largest folds_split explored

None      == 0 - 1                  \* test_size=None
TestSizes == {None, 0, 25, 50}      \* test_size in percent
\* sample names in annotation-file order
Names     == <<"a.jpg", "b.jpg", "c.jpg", "d.jpg", "e.jpg", "f.jpg">>
Classes   == {0, 1, 2}

Range(s) == {s[k] : k \in DOMAIN s}

RECURSIVE SortedSeq(_)
\* the ascending index array numpy returns for a boolean mask
SortedSeq(S) ==
    IF S = {} THEN <<>>
    ELSE LET m == CHOOSE x \in S : \A y \in S : x <= y
         IN <<m>> \o SortedSeq(S \ {m})

\* number of members of class c in the label list
ClassCount(c) == Cardinality({k \in DOMAIN labels : labels[k] = c})
PresentClasses == Range(labels)

\* `if folds_split == 1: if not test_size: raise ValueError`
ConstructorRaisesAnyMode(fs, ts) == ts = None \/ ts = 0
ConstructorRaises(fs, ts) == fs = 1 /\ (ts = None \/ ts = 0)

\* the list comprehension [seq[i] for i in index]
Project(seq, index) == [j \in 1..Len(index) |-> seq[index[j]]]

\* one side of a split: the [samples, labels] pair; `index` keeps the index
\* list the comprehensions iterated over
Side(index) ==
    [index |-> index, samples |-> Project(samples, index), labels |-> Project(labels, index)]

\* get_data_split_single: the projections of train_index and val_index
SingleResultPositional(train_index, val_index) ==
    [train |-> <<Side(train_index)>>,
     val   |-> <<[index |-> val_index,
                  samples |-> Project(samples, val_index),
                  labels |-> [j \in 1..Len(val_index) |-> labels[j]]]>>]
SingleResult(train_index, val_index) ==
    [train |-> <<Side(train_index)>>, val |-> <<Side(val_index)>>]

\* get_data_split_folds: the loop body for one (train_index, val_index)
FoldResultValOnly(train_index, val_index) ==
    [train |-> Side(val_index), val |-> Side(val_index)]
FoldResult(train_index, val_index) ==
    [train |-> Side(train_index), val |-> Side(val_index)]

(* sklearn.model_selection.train_test_split(index, test_size, stratify, seed) *)
NTest  == (test_size * Len(samples) + 99) \div 100      \* ceil(test_size * n)
NTrain == Len(samples) - NTest

\* the ValueErrors of train_test_split / StratifiedShuffleSplit
TrainTestSplitRaises ==
    \/ test_size <= 0 \/ test_size >= 100
    \/ NTrain <= 0
    \/ \E c \in PresentClasses : ClassCount(c) < 2
    \/ NTrain < Cardinality(PresentClasses)
    \/ NTest < Cardinality(PresentClasses)

\* _approximate_mode: the floor of the proportional share, plus one for the
\* classes with the largest remainders
ApproximateModeOK(cnt) ==
    LET n == Len(samples)
        floor(c) == (ClassCount(c) * NTrain) \div n
        rem(c)   == (ClassCount(c) * NTrain) % n
    IN \A c \in PresentClasses :
         /\ cnt[c] \in {floor(c), floor(c) + 1}
         /\ cnt[c] = floor(c) + 1 => rem(c) > 0
         /\ \A d \in PresentClasses :
              (cnt[d] = floor(d) + 1 /\ rem(c) > rem(d)) => cnt[c] = floor(c) + 1

\* every (train_index, val_index) the seeded shuffle may return
TrainTestSplitOutcomes ==
    LET n == Len(samples)
    IN { <<SubSeq(p, 1, NTrain), SubSeq(p, NTrain + 1, n)>> :
           p \in { q \in Permutations(1..n) :
                     ApproximateModeOK(
                         [c \in PresentClasses |->
                            Cardinality({k \in 1..NTrain : labels[q[k]] = c})]) } }

(* sklearn.model_selection.StratifiedKFold(n_splits, shuffle=True, seed).split *)
\* the ValueErrors of StratifiedKFold.split
StratifiedKFoldRaises ==
    \/ folds_split < 2
    \/ folds_split > Len(samples)
    \/ \A c \in PresentClasses : folds_split > ClassCount(c)

\* every assignment of the samples to test folds the seeded shuffle may
\* produce: each class is spread over the folds as evenly as possible
TestFolds ==
    { f \in [1..Len(samples) -> 1..folds_split] :
        \A c \in PresentClasses : \A k \in 1..folds_split :
           LET m == Cardinality({x \in 1..Len(samples) : labels[x] = c /\ f[x] = k})
               q == ClassCount(c) \div folds_split
           IN m = q \/ (m = q + 1 /\ ClassCount(c) % folds_split # 0) }

\* the (train_index, val_index) pair split() yields for fold k
FoldIndices(f, k) ==
    <<SortedSeq({x \in DOMAIN f : f[x] # k}), SortedSeq({x \in DOMAIN f : f[x] = k})>>

DataInit ==
    /\ dpc = "new"
    /\ folds_split \in 1..MaxFolds
    /\ test_size \in IF folds_split = 1 THEN TestSizes ELSE {None, 25}
    /\ \E n \in 0..MaxSamples :
         /\ samples = SubSeq(Names, 1, n)
         /\ labels \in [1..n -> Classes]
    /\ train_list = <<>>
    /\ val_list = <<>>
    /\ loaders = 0

\* GetDataloader.__init__ returning normally
Construct ==
    /\ dpc = "new"
    /\ ~ConstructorRaises(folds_split, test_size)
    /\ dpc' = "constructed"
    /\ UNCHANGED <<folds_split, test_size, samples, labels, train_list, val_list, loaders>>

\* GetDataloader.__init__ raising ValueError
ConstructFails ==
    /\ dpc = "new"
    /\ ConstructorRaises(folds_split, test_size)
    /\ dpc' = "ctor_error"
    /\ UNCHANGED <<folds_split, test_size, samples, labels, train_list, val_list, loaders>>

\* get_data_split_single returning
GetDataSplitSingle(after) ==
    /\ folds_split = 1
    /\ ~TrainTestSplitRaises
    /\ \E o \in TrainTestSplitOutcomes :
         LET r == SingleResult(o[1], o[2])
         IN /\ train_list' = r.train
            /\ val_list' = r.val
    /\ dpc' = after

\* get_data_split_folds returning
GetDataSplitFolds(after) ==
    /\ folds_split # 1
    /\ ~StratifiedKFoldRaises
    /\ \E f \in TestFolds :
         LET r == [k \in 1..folds_split |->
                     FoldResult(FoldIndices(f, k)[1], FoldIndices(f, k)[2])]
         IN /\ train_list' = [k \in 1..folds_split |-> r[k].train]
            /\ val_list' = [k \in 1..folds_split |-> r[k].val]
    /\ dpc' = after

\* the split raising inside the library call
SplitRaises ==
    \/ folds_split = 1 /\ TrainTestSplitRaises
    \/ folds_split # 1 /\ StratifiedKFoldRaises

\* get_split called by the user (create_dataset.py __main__)
GetSplit ==
    /\ dpc = "constructed"
    /\ \/ GetDataSplitSingle("split_done")
       \/ GetDataSplitFolds("split_done")
    /\ UNCHANGED <<folds_split, test_size, samples, labels, loaders>>

\* get_dataloader: get_split, then one DataLoader pair per zipped fold
GetDataloader ==
    /\ dpc = "constructed"
    /\ \/ GetDataSplitSingle("loaders_done")
       \/ GetDataSplitFolds("loaders_done")
    /\ loaders' = IF Len(train_list') < Len(val_list') THEN Len(train_list') ELSE Len(val_list')
    /\ UNCHANGED <<folds_split, test_size, samples, labels>>

\* get_split or get_dataloader aborted by the library's ValueError
SplitFails ==
    /\ dpc = "constructed"
    /\ SplitRaises
    /\ dpc' = "split_error"
    /\ UNCHANGED <<folds_split, test_size, samples, labels, train_list, val_list, loaders>>

\* ---- the part that is not running in each specification ----
DataIdle ==
    /\ dpc = "idle"
    /\ folds_split = 1
    /\ test_size = None
    /\ samples = <<>>
    /\ labels = <<>>
    /\ train_list = <<>>
    /\ val_list = <<>>
    /\ loaders = 0

TrainIdle ==
    /\ pc = "idle"
    /\ self_epoch = 0
    /\ num_batches = 0
    /\ epoch = 0
    /\ i = 0
    /\ global_step = 0
    /\ max_accuracy_valid = 0
    /\ val_accuracy = 0
    /\ mode = "train"
    /\ model = 0
    /\ lr_steps = 0
    /\ valLog = <<>>
    /\ saveLog = <<>>
    /\ ckptFile = <<>>
    /\ bestFile = <<>>

\* ---- the training controller ----
Init == TrainInit /\ DataIdle

Next ==
    \/ EpochStart /\ UNCHANGED dvars
    \/ TrainBatch /\ UNCHANGED dvars
    \/ SchedulerStep /\ UNCHANGED dvars
    \/ Validation /\ UNCHANGED dvars
    \/ Checkpoint /\ UNCHANGED dvars
    \/ Finish /\ UNCHANGED dvars

Spec == Init /\ [][Next]_vars

\* ---- the data splitter ----
SplitInit == DataInit /\ TrainIdle

SplitNext ==
    \/ Construct /\ UNCHANGED tvars
    \/ ConstructFails /\ UNCHANGED tvars
    \/ GetSplit /\ UNCHANGED tvars
    \/ GetDataloader /\ UNCHANGED tvars
    \/ SplitFails /\ UNCHANGED tvars

SplitSpec == SplitInit /\ [][SplitNext]_vars

(***************************************************************************)
(*                         Properties: TrainVal                            *)
(***************************************************************************)

RECURSIVE RunMax(_)
\* the maximum of 0 and the validation accuracies of epochs 1..k
RunMax(k) == IF k = 0 THEN 0 ELSE Max2(RunMax(k - 1), valLog[k].oa)

\* validation accuracy of the epoch before k (0 before the first epoch)
PrevAcc(k) == IF k = 1 THEN 0 ELSE valLog[k - 1].oa

NumBest == Cardinality({k \in 1..Len(saveLog) : saveLog[k].is_best})
BestEpochs == {k \in 1..Len(saveLog) : saveLog[k].is_best}
LastBest == CHOOSE k \in BestEpochs : \A j \in BestEpochs : j <= k

StrictlyIncreasing == \A k \in 1..Len(valLog) : valLog[k].oa > PrevAcc(k)
OnlyFirstIncreases ==
    /\ Len(valLog) >= 1
    /\ valLog[1].oa > 0
    /\ \A k \in 2..Len(valLog) : valLog[k].oa <= valLog[1].oa

\* C3: after a run of N epochs, if validation accuracy strictly increased at
\* every epoch exactly N checkpoints were marked best, and if it increased
\* only at epoch 1 exactly one was.
C3_BestCount ==
    pc = "done" =>
        /\ StrictlyIncreasing => NumBest = self_epoch
        /\ OnlyFirstIncreases => NumBest = 1

C3_Witness ==
    /\ pc = "done"
    /\ self_epoch >= 3
    /\ StrictlyIncreasing
    /\ NumBest = self_epoch

C3_WitnessOnlyFirst ==
    /\ pc = "done"
    /\ self_epoch >= 3
    /\ OnlyFirstIncreases
    /\ valLog[2].oa = valLog[1].oa
    /\ NumBest = 1

\* C4: at every epoch the checkpoint is marked best iff that epoch's
\* validation accuracy is strictly greater than the running maximum (from 0)
\* of the earlier epochs, and the stored max_score is the maximum of 0 and
\* all accuracies up to and including that epoch.
C4_BestIffStrictlyGreater ==
    \A k \in 1..Len(saveLog) :
        /\ saveLog[k].is_best <=> (valLog[k].oa > RunMax(k - 1))
        /\ valLog[k].oa = RunMax(k - 1) => ~saveLog[k].is_best
        /\ saveLog[k].state.max_score = RunMax(k)

C4_Witness ==
    \E k \in 2..Len(saveLog) :
        /\ valLog[k].oa = RunMax(k - 1)
        /\ valLog[k].oa > 0
        /\ ~saveLog[k].is_best
        /\ saveLog[k - 1].is_best

\* C5: save_checkpoint is invoked once per epoch whatever is_best is: the
\* k-th call carries epoch k, and a finished run of N epochs made N calls.
C5_SaveEveryEpoch ==
    /\ \A k \in 1..Len(saveLog) : saveLog[k].state.epoch = k
    /\ pc \in {"loop", "done"} => Len(saveLog) = epoch
    /\ pc \in {"train", "validate", "checkpoint"} => Len(saveLog) = epoch - 1
    /\ pc = "done" => Len(saveLog) = self_epoch

C5_Witness ==
    /\ pc = "done"
    /\ self_epoch >= 3
    /\ Len(saveLog) = self_epoch
    /\ \E j, k \in 1..Len(saveLog) : saveLog[j].is_best /\ ~saveLog[k].is_best

\* C6: once some epoch was marked best, the best copy holds the record
\* (epoch, model state, max_score) of the most recent epoch marked best,
\* whatever later epochs wrote to the regular checkpoint file.
C6_BestCopyKept ==
    /\ BestEpochs = {} => bestFile = <<>>
    /\ BestEpochs # {} =>
         /\ bestFile = <<saveLog[LastBest].state>>
         /\ bestFile[1].epoch = LastBest
         /\ bestFile[1].state_dict = valLog[LastBest].model
         /\ bestFile[1].max_score = valLog[LastBest].oa

C6_Witness ==
    /\ BestEpochs # {}
    /\ LastBest < Len(saveLog)
    /\ ckptFile # bestFile
    /\ ckptFile[1].epoch > bestFile[1].epoch
    /\ bestFile[1].epoch = LastBest

\* C7: a validation call requests confusion-matrix rendering exactly when its
\* epoch number is the configured epoch count: the final epoch, none earlier.
C7_SaveResultOnlyFinalEpoch ==
    \A k \in 1..Len(valLog) :
        /\ valLog[k].epoch = k
        /\ valLog[k].save_result <=> (k = self_epoch)

C7_Witness ==
    /\ pc = "done"
    /\ self_epoch >= 3
    /\ valLog[self_epoch].save_result
    /\ ~valLog[1].save_result

\* C10: every epoch runs all its training batches, then one scheduler step,
\* then validation, then the checkpoint write; the write of epoch e sees
\* exactly the updates of epochs 1..e, and the run ends after self_epoch epochs.
C10_PhaseOrder ==
    /\ \A k \in 1..Len(valLog) :
         /\ valLog[k].model = k * num_batches
         /\ valLog[k].lr_steps = k
    /\ \A k \in 1..Len(saveLog) :
         /\ saveLog[k].state.state_dict = k * num_batches
         /\ saveLog[k].lr_steps = k
         /\ saveLog[k].validations = k
    /\ pc = "train" => /\ model = (epoch - 1) * num_batches + i
                       /\ lr_steps = epoch - 1
                       /\ Len(valLog) = epoch - 1
                       /\ mode = "train"
    /\ pc = "validate" => /\ i = num_batches
                          /\ lr_steps = epoch
                          /\ Len(valLog) = epoch - 1
    /\ pc = "checkpoint" => /\ Len(valLog) = epoch
                            /\ Len(saveLog) = epoch - 1
                            /\ mode = "eval"
    /\ pc = "done" => /\ epoch = self_epoch
                      /\ Len(saveLog) = self_epoch
                      /\ model = self_epoch * num_batches
                      /\ lr_steps = self_epoch
                      /\ global_step = self_epoch * num_batches
    /\ pc # "done" => ENABLED Next

C10_Witness ==
    /\ pc = "done"
    /\ self_epoch >= 3
    /\ num_batches >= 2
    /\ Len(saveLog) = self_epoch

(***************************************************************************)
(*                       Properties: GetDataloader                         *)
(***************************************************************************)

Returned == dpc \in {"split_done", "loaders_done"}
NoDuplicates(s) == \A a, b \in DOMAIN s : a # b => s[a] # s[b]
ProjectionOf(side) ==
    /\ Len(side.samples) = Len(side.index)
    /\ Len(side.labels) = Len(side.index)
    /\ \A j \in DOMAIN side.index :
         /\ side.samples[j] = samples[side.index[j]]
         /\ side.labels[j] = labels[side.index[j]]

\* C1: in cross-validation mode a returned split has K (train, val) pairs;
\* every sample index is in the validation side of exactly one fold and in
\* the training side of exactly K-1 folds.
C1_KFoldPartition ==
    (Returned /\ folds_split > 1) =>
        /\ Len(train_list) = folds_split
        /\ Len(val_list) = folds_split
        /\ \A k \in 1..folds_split :
             /\ NoDuplicates(train_list[k].index)
             /\ NoDuplicates(val_list[k].index)
             /\ ProjectionOf(train_list[k])
             /\ ProjectionOf(val_list[k])
        /\ \A x \in DOMAIN samples :
             /\ Cardinality({k \in 1..folds_split : x \in Range(val_list[k].index)}) = 1
             /\ Cardinality({k \in 1..folds_split : x \in Range(train_list[k].index)})
                  = folds_split - 1

C1_Witness ==
    /\ Returned
    /\ folds_split >= 3
    /\ Len(samples) >= 4
    /\ Cardinality(Range(labels)) = 2
    /\ Len(val_list) = folds_split

\* C2: in holdout mode a returned split is exactly one (train, val) pair whose
\* index sets are disjoint and together are all sample indices, and every
\* returned sample and label is the one of the index at the same position.
C2_HoldoutPartition ==
    (Returned /\ folds_split = 1) =>
        /\ Len(train_list) = 1
        /\ Len(val_list) = 1
        /\ Range(train_list[1].index) \cap Range(val_list[1].index) = {}
        /\ Range(train_list[1].index) \cup Range(val_list[1].index) = DOMAIN samples
        /\ NoDuplicates(train_list[1].index)
        /\ NoDuplicates(val_list[1].index)
        /\ ProjectionOf(train_list[1])
        /\ ProjectionOf(val_list[1])

C2_Witness ==
    /\ Returned
    /\ folds_split = 1
    /\ Len(samples) >= 4
    /\ Cardinality(Range(labels)) = 2
    /\ Len(val_list[1].index) = 2
    /\ val_list[1].index[1] > val_list[1].index[2]

\* C8: in holdout mode without a validation fraction the constructor fails, so
\* no split and no loader ever comes from such an object; with folds_split > 1
\* the fraction is not required.
C8_HoldoutNeedsTestSize ==
    /\ (folds_split = 1 /\ test_size = None) =>
         /\ dpc \in {"new", "ctor_error"}
         /\ train_list = <<>>
         /\ val_list = <<>>
         /\ loaders = 0
    /\ folds_split > 1 => dpc # "ctor_error"

C8_Witness ==
    /\ dpc = "ctor_error"
    /\ folds_split = 1
    /\ test_size = None

C8_WitnessFolds ==
    /\ Returned
    /\ folds_split > 1
    /\ test_size = None

\* C9: in cross-validation mode, if any class has fewer members than the fold
\* count the splitter fails and returns no folds.
C9_FewMembersFails ==
    (folds_split > 1 /\ \E c \in PresentClasses : ClassCount(c) < folds_split)
        => ~Returned

====
